---- MODULE Spec2Model ----
(***************************************************************************)
(* Recipe API: the recipe / tag / ingredient store, the ownership-scoped   *)
(* querysets of the viewsets, the recipe list filter and the association   *)
(* reconciliation performed when a recipe is created or updated.           *)
(***************************************************************************)
EXTENDS Integers, Sequences, FiniteSets, TLC

\* ------------------------------------------------------------------------
\* Bounds of the model
\* ------------------------------------------------------------------------
MaxRecipeId == 2
MaxTagId == 2
MaxIngredientId == 1
MaxTagNames == 2
MaxIngredientNames == 1
MaxExtraKeys == 1
MaxParamLen == 3
MaxRaceNames == 2
MaxWrites == 3

\* ------------------------------------------------------------------------
\* Value domains
\* ------------------------------------------------------------------------
Users == {"john", "bob"}
TagNames == {"Pasta", "Garfield"}
IngredientNames == {"Garlic"}
Titles == {"Lasagna"}
Kinds == {"tags", "ingredients"}

\* Recipe, Attr, nextId: the database (recipe rows with their association
\* sets, tag and ingredient rows, auto-increment counters).
\* req, res: the request being answered and its response, until the response
\* is delivered; before: the database as the request found it.
\* txn: the recipe writes that run concurrently, each with the position it
\* has reached and what it has read so far.
VARIABLES Recipe, Attr, nextId, req, res, before, txn

vars == <<Recipe, Attr, nextId, req, res, before, txn>>
store == <<Recipe, Attr, nextId>>

Snapshot == [Recipe |-> Recipe, Attr |-> Attr, nextId |-> nextId]

\* ------------------------------------------------------------------------
\* Dictionaries (partial functions)
\* ------------------------------------------------------------------------
Empty == [k \in {} |-> k]

Put(f, k, v) == [x \in DOMAIN f \cup {k} |-> IF x = k THEN v ELSE f[x]]

Del(f, k) == [x \in DOMAIN f \ {k} |-> f[x]]

Restrict(f, D) == [x \in D |-> f[x]]

SeqsUpTo(S, n) == UNION {[1..m -> S] : m \in 0..n}

MaxAttrId(kind) == IF kind = "tags" THEN MaxTagId ELSE MaxIngredientId

NamesOf(kind) == IF kind = "tags" THEN TagNames ELSE IngredientNames

\* ------------------------------------------------------------------------
\* Request payloads
\* ------------------------------------------------------------------------
RecipeFields == {"title", "user", "tags", "ingredients"}

FullPayloads ==
    [title : Titles, user : Users,
     tags : SeqsUpTo(TagNames, MaxTagNames),
     ingredients : SeqsUpTo(IngredientNames, MaxIngredientNames)]

\* A payload carries the title or not, and at most MaxExtraKeys other keys.
PayloadKeys == {D \in SUBSET RecipeFields : Cardinality(D \ {"title"}) <= MaxExtraKeys}

RecipePayloads == {Restrict(p, D) : p \in FullPayloads, D \in PayloadKeys}

AttrPayloads(kind) == {Empty} \cup {[name |-> n] : n \in NamesOf(kind)}

\* Query parameter values: strings over these characters.
Chars == {"1", "2", ","}

QueryStrings == SeqsUpTo(Chars, MaxParamLen)

\* The tags parameter, when given, is any query string; the ingredients
\* parameter, when given, names at most one id.
QueryParams ==
    {Empty}
    \cup {[tags |-> t] : t \in QueryStrings}
    \cup {[ingredients |-> i] : i \in SeqsUpTo(Chars, 1)}
    \cup {[tags |-> t, ingredients |-> i] :
             t \in QueryStrings, i \in SeqsUpTo(Chars, 1)}

Response(status, data) == [status |-> status, data |-> data]

Request(op, kind, user, pk, payload, params) ==
    [op |-> op, kind |-> kind, user |-> user, pk |-> pk,
     payload |-> payload, query_params |-> params]

NoRequest == Request("none", "none", "none", 0, Empty, Empty)

NoResponse == Response("none", <<>>)

\* The server answers one request at a time.
Idle == req = NoRequest

Receive(r) ==
    /\ Idle
    /\ req' = r
    /\ before' = Snapshot
    /\ UNCHANGED txn

\* ------------------------------------------------------------------------
\* Authentication
\* ------------------------------------------------------------------------
\* request.user of a request that carries no token.
AnonymousUser == "AnonymousUser"

\* A bug: the viewsets admit every request.
AllowAny(user) == TRUE

\* permission_classes = [IsAuthenticated]
IsAuthenticated(user) == user # AnonymousUser

\* ------------------------------------------------------------------------
\* Ownership-scoped querysets
\* ------------------------------------------------------------------------
\* A bug: the queryset is not narrowed to the requesting user.
AttrQueryset_unscoped(table, user) == DOMAIN table

\* BaseRecipeAttrViewset.get_queryset: the rows of one kind owned by the user.
AttrQueryset(table, user) == {id \in DOMAIN table : table[id].user = user}

\* get_object() of the tag / ingredient viewsets: the row with this pk in the
\* user's queryset, if any.
AttrGetObject(table, user, pk) == pk \in AttrQueryset(table, user)

\* The collation order of the names.
NameRank == ("Garfield" :> 1) @@ ("Garlic" :> 2) @@ ("Pasta" :> 3)

\* order_by('-name') over the rows ids of a table: the greatest name first
\* (rows of equal name by id).
RECURSIVE order_by_name_desc(_, _)
order_by_name_desc(table, ids) ==
    IF ids = {} THEN <<>>
    ELSE LET first == CHOOSE id \in ids : \A other \in ids :
                          \/ NameRank[table[id].name] > NameRank[table[other].name]
                          \/ /\ table[id].name = table[other].name
                             /\ id <= other
         IN <<first>> \o order_by_name_desc(table, ids \ {first})

\* The query strings sent with a tag or ingredient list request.
AttrListParams == {Empty, [assigned_only |-> "0"], [assigned_only |-> "1"]}

\* ------------------------------------------------------------------------
\* Recipe list filter
\* ------------------------------------------------------------------------
Digits == ("0" :> 0) @@ ("1" :> 1) @@ ("2" :> 2) @@ ("3" :> 3) @@ ("4" :> 4)
          @@ ("5" :> 5) @@ ("6" :> 6) @@ ("7" :> 7) @@ ("8" :> 8) @@ ("9" :> 9)

\* str.split(','): the tokens between commas; the empty string has one
\* empty token.
RECURSIVE split(_, _)
split(qs, token) ==
    IF qs = <<>> THEN <<token>>
    ELSE IF Head(qs) = "," THEN <<token>> \o split(Tail(qs), <<>>)
    ELSE split(Tail(qs), Append(token, Head(qs)))

\* int(str_id) succeeds on a non-empty string of digits.
IsInt(token) ==
    /\ token # <<>>
    /\ \A k \in 1..Len(token) : token[k] \in DOMAIN Digits

RECURSIVE int(_)
int(token) ==
    IF token = <<>> THEN 0
    ELSE 10 * int(SubSeq(token, 1, Len(token) - 1)) + Digits[token[Len(token)]]

\* RecipeViewSet.params_to_ints: the ids of a parameter value; int() raises
\* ValueError on a token that is no integer.
params_to_ints(qs) ==
    LET tokens == split(qs, <<>>)
    IN [raised |-> \E k \in 1..Len(tokens) : ~IsInt(tokens[k]),
        ids |-> {int(tokens[k]) : k \in {j \in 1..Len(tokens) : IsInt(tokens[j])}}]

\* A queryset is the sequence of rows its SQL yields, each row named by the
\* recipe id it carries.
RECURSIVE Repeat(_, _)
Repeat(x, n) == IF n = 0 THEN <<>> ELSE <<x>> \o Repeat(x, n - 1)

\* Recipe.objects.all(): one row per recipe, in primary key order.
RECURSIVE all(_, _)
all(recipes, from) ==
    IF \A id \in DOMAIN recipes : id < from THEN <<>>
    ELSE (IF from \in DOMAIN recipes THEN <<from>> ELSE <<>>)
         \o all(recipes, from + 1)

\* queryset.filter(<kind>__id__in=ids): the join with the association rows
\* yields one row per association whose child id is in ids.
RECURSIVE filter_in(_, _, _, _)
filter_in(queryset, recipes, kind, ids) ==
    IF queryset = <<>> THEN <<>>
    ELSE Repeat(Head(queryset),
                Cardinality(recipes[Head(queryset)][kind] \cap ids))
         \o filter_in(Tail(queryset), recipes, kind, ids)

\* queryset.filter(user=user)
RECURSIVE filter_user(_, _, _)
filter_user(queryset, recipes, user) ==
    IF queryset = <<>> THEN <<>>
    ELSE (IF recipes[Head(queryset)].user = user THEN <<Head(queryset)>>
          ELSE <<>>)
         \o filter_user(Tail(queryset), recipes, user)

\* queryset.order_by('-id'): insertion of each row behind the rows that are
\* not smaller.
RECURSIVE insert_desc(_, _)
insert_desc(sorted, x) ==
    IF sorted = <<>> THEN <<x>>
    ELSE IF Head(sorted) >= x THEN <<Head(sorted)>> \o insert_desc(Tail(sorted), x)
    ELSE <<x>> \o sorted

\* A bug: the rows stay in the order the table yields them.
order_by_omitted(queryset) == queryset

RECURSIVE order_by_desc(_)
order_by_desc(queryset) ==
    IF queryset = <<>> THEN <<>>
    ELSE insert_desc(order_by_desc(Tail(queryset)), Head(queryset))

\* A bug: the rows are returned as the joins produced them.
distinct_omitted(queryset) == queryset

\* queryset.distinct(): each row once.
RECURSIVE distinct(_)
distinct(queryset) ==
    IF queryset = <<>> THEN <<>>
    ELSE LET rest == distinct(SubSeq(queryset, 1, Len(queryset) - 1))
             last == queryset[Len(queryset)]
         IN IF \E k \in 1..Len(rest) : rest[k] = last THEN rest
            ELSE Append(rest, last)

\* `if tags:` -- the parameter is given and not the empty string.
Truthy(params, key) == key \in DOMAIN params /\ params[key] # <<>>

\* The ids a filter parameter asks for (when it parses).
param_ids(params, key) == params_to_ints(params[key]).ids

\* int() raises on one of the given parameters.
raises_ValueError(params) ==
    \E key \in {"tags", "ingredients"} :
        Truthy(params, key) /\ params_to_ints(params[key]).raised

\* A bug: the ingredients filter starts over from all recipes, dropping the
\* tags filter.
get_queryset_last_filter_wins(recipes, user, params) ==
    LET q0 == all(recipes, 1)
        q1 == IF Truthy(params, "tags")
              THEN filter_in(q0, recipes, "tags", param_ids(params, "tags"))
              ELSE q0
        q2 == IF Truthy(params, "ingredients")
              THEN filter_in(q0, recipes, "ingredients",
                             param_ids(params, "ingredients"))
              ELSE q1
    IN distinct(order_by_desc(filter_user(q2, recipes, user)))

\* RecipeViewSet.get_queryset
get_queryset(recipes, user, params) ==
    LET q0 == all(recipes, 1)
        q1 == IF Truthy(params, "tags")
              THEN filter_in(q0, recipes, "tags", param_ids(params, "tags"))
              ELSE q0
        q2 == IF Truthy(params, "ingredients")
              THEN filter_in(q1, recipes, "ingredients",
                             param_ids(params, "ingredients"))
              ELSE q1
    IN distinct(order_by_desc(filter_user(q2, recipes, user)))

Range(seq) == {seq[k] : k \in 1..Len(seq)}

\* The query strings sent with a detail request: none, or a tags parameter
\* whose tokens are no integers.
DetailParams == {Empty, [tags |-> <<",">>]}

\* get_object() of the recipe viewset on a detail request: the row with this
\* pk in get_queryset(), if any; get_queryset() reads the filter parameters
\* of a detail request as it does those of a list request.
RecipeGetObject(recipes, user, pk, params) ==
    pk \in Range(get_queryset(recipes, user, params))

\* ------------------------------------------------------------------------
\* Recipe serializer
\* ------------------------------------------------------------------------
\* A bug: the owner is a writable field of the serializer.
Meta_fields_with_user == {"title", "user"}

\* Meta.fields that a payload can write: 'id' is read-only, 'user' is not a
\* field; title stands for the scalar columns.
Meta_fields == {"title"}

\* The nested many-to-many fields of the serializer.
NestedFields == {"tags", "ingredients"}

\* is_valid(): unknown keys are dropped; a full (non-partial) payload must
\* carry the required scalar field.
validated_data(payload) ==
    Restrict(payload, DOMAIN payload \cap (Meta_fields \cup NestedFields))

is_valid(payload, partial) == partial \/ "title" \in DOMAIN payload

\* RecipeViewSet.perform_create: the owner handed to serializer.save().
perform_create(request_user, payload) == request_user

\* ------------------------------------------------------------------------
\* Association reconciliation
\* ------------------------------------------------------------------------
\* A bug: the lookup matches the name under any owner.
Lookup_any_owner(table, owner, name) ==
    {id \in DOMAIN table : table[id].name = name}

\* The rows of a table with this (owner, name).
Lookup(table, owner, name) ==
    {id \in DOMAIN table : table[id].user = owner /\ table[id].name = name}

\* A bug: every requested name gets a new row, whether one exists or not.
RECURSIVE get_or_create_no_lookup(_, _, _, _, _)
get_or_create_no_lookup(table, next, owner, names, refs) ==
    IF names = <<>>
    THEN [table |-> table, next |-> next, refs |-> refs]
    ELSE get_or_create_no_lookup(
             Put(table, next, [user |-> owner, name |-> Head(names)]),
             next + 1, owner, Tail(names), refs \cup {next})

\* A bug: the lookup does not see the rows this request already resolved.
RECURSIVE get_or_create_stale_lookup(_, _, _, _, _)
get_or_create_stale_lookup(table, next, owner, names, refs) ==
    IF names = <<>>
    THEN [table |-> table, next |-> next, refs |-> refs]
    ELSE LET name == Head(names)
             found == Lookup(table, owner, name) \ refs
         IN IF found # {}
            THEN get_or_create_stale_lookup(table, next, owner, Tail(names),
                                            refs \cup {CHOOSE id \in found : TRUE})
            ELSE get_or_create_stale_lookup(
                     Put(table, next, [user |-> owner, name |-> name]),
                     next + 1, owner, Tail(names), refs \cup {next})

\* Resolve the requested names in order against the rows of one kind:
\* reuse the row with (owner, name) when there is one, create it otherwise.
RECURSIVE get_or_create(_, _, _, _, _)
get_or_create(table, next, owner, names, refs) ==
    IF names = <<>>
    THEN [table |-> table, next |-> next, refs |-> refs]
    ELSE LET name == Head(names)
             found == Lookup(table, owner, name)
         IN IF found # {}
            THEN get_or_create(table, next, owner, Tail(names),
                               refs \cup {CHOOSE id \in found : TRUE})
            ELSE get_or_create(Put(table, next, [user |-> owner, name |-> name]),
                               next + 1, owner, Tail(names), refs \cup {next})

\* A bug: the resolved rows are added to the associations already there.
reconcile_adds(kind, validated, owner, table, next, existing) ==
    IF kind \in DOMAIN validated
    THEN get_or_create(table, next, owner, validated[kind], existing)
    ELSE [table |-> table, next |-> next, refs |-> existing]

\* A bug: a payload without the field clears the associations.
reconcile_absent_clears(kind, validated, owner, table, next, existing) ==
    IF kind \in DOMAIN validated
    THEN get_or_create(table, next, owner, validated[kind], {})
    ELSE [table |-> table, next |-> next, refs |-> {}]

\* A bug: the rows whose association is dropped are deleted.
reconcile_deletes_dropped(kind, validated, owner, table, next, existing) ==
    IF kind \in DOMAIN validated
    THEN LET r == get_or_create(table, next, owner, validated[kind], {})
         IN [r EXCEPT !.table = Restrict(r.table,
                                         DOMAIN r.table \ (existing \ r.refs))]
    ELSE [table |-> table, next |-> next, refs |-> existing]

\* The reconciliation of one kind for one request: runs only when the
\* validated payload carries the field, and then replaces the recipe's
\* association set by the resolved one.
reconcile(kind, validated, owner, table, next, existing) ==
    IF kind \in DOMAIN validated
    THEN get_or_create(table, next, owner, validated[kind], {})
    ELSE [table |-> table, next |-> next, refs |-> existing]

\* The scalar columns after setattr of every validated scalar field.
set_attrs(instance, validated) ==
    [f \in DOMAIN instance |->
        IF f \in DOMAIN validated \cap Meta_fields THEN validated[f]
        ELSE instance[f]]

\* serializer.save(): the store after writing recipe row pk, whose columns
\* before the write are 'instance', with the validated payload.
save(pk, instance, validated, recipes, attr, next) ==
    LET t == reconcile("tags", validated, instance.user, attr["tags"],
                       next["tags"], instance.tags)
        i == reconcile("ingredients", validated, instance.user,
                       attr["ingredients"], next["ingredients"],
                       instance.ingredients)
        row == [set_attrs(instance, validated) EXCEPT
                    !.tags = t.refs, !.ingredients = i.refs]
    IN [Recipe |-> Put(recipes, pk, row),
        Attr |-> [tags |-> t.table, ingredients |-> i.table],
        nextId |-> [next EXCEPT !["tags"] = t.next, !["ingredients"] = i.next]]

\* The ids a write would allocate stay within the modelled id ranges.
Fits(s) ==
    /\ s.nextId["tags"] - 1 <= MaxTagId
    /\ s.nextId["ingredients"] - 1 <= MaxIngredientId

Commit(s) ==
    /\ Recipe' = s.Recipe
    /\ Attr' = s.Attr
    /\ nextId' = s.nextId

\* ------------------------------------------------------------------------
\* Concurrent recipe writes
\* ------------------------------------------------------------------------
\* The server processes that handle requests at the same time.
Procs == {1, 2}

\* A write in progress: the request (user, op, pk, the kind and the names it
\* carries), the names still to resolve, the rows resolved so far, the
\* names whose lookup found no row, the recipe's association set that the
\* write read when it began, and that set as the write's transaction sees it
\* (the set it read, then its own writes); count is the number of writes
\* the process has taken so far.
Txn(pc, user, op, pk, kind, names, todo, refs, missed, existing, view, count) ==
    [pc |-> pc, user |-> user, op |-> op, pk |-> pk, kind |-> kind,
     names |-> names, todo |-> todo, refs |-> refs, missed |-> missed,
     existing |-> existing, view |-> view, count |-> count]

NoTxn == Txn("idle", "none", "none", 0, "none", <<>>, <<>>, {}, {}, {}, {}, 0)

\* The number of writes the processes have taken.
RECURSIVE Taken(_, _)
Taken(t, ps) ==
    IF ps = {} THEN 0
    ELSE LET p == CHOOSE q \in ps : TRUE IN t[p].count + Taken(t, ps \ {p})

\* The position after a name is resolved: the next lookup, or the
\* replacement of the association set, which starts by clearing it.
AfterResolve(todo) == IF Tail(todo) = <<>> THEN "clear" ELSE "lookup"

\* A write that has begun and has not committed yet.
InFlight(t) == t.pc \notin {"idle", "done"}

\* The number of rows of its kind that the write may still insert: the names
\* it has not resolved yet that have no row of its owner.
Need(attr, kind, user, todo) ==
    Cardinality({n \in Range(todo) : Lookup(attr[kind], user, n) = {}})

RECURSIVE SumNeed(_, _, _, _)
SumNeed(attr, kind, t, ps) ==
    IF ps = {} THEN 0
    ELSE LET p == CHOOSE q \in ps : TRUE
         IN (IF InFlight(t[p]) /\ t[p].kind = kind
             THEN Need(attr, kind, t[p].user, t[p].todo) ELSE 0)
            + SumNeed(attr, kind, t, ps \ {p})

\* Entity Store: the association writes, on the association set of one
\* recipe and kind.
clearAssociations(assoc) == {}

addAssociation(assoc, id) == assoc \cup {id}

\* Entity Store transaction: what the other requests see of the recipes
\* while a write's transaction, whose association set is w by now, has not
\* committed. Without a transaction every write is seen at once.
Uncommitted_autocommit(recipes, pk, kind, w) ==
    IF pk \in DOMAIN recipes THEN [recipes EXCEPT ![pk][kind] = w] ELSE recipes

Uncommitted(recipes, pk, kind, w) == recipes

\* ------------------------------------------------------------------------
\* Initial state
\* ------------------------------------------------------------------------
Init ==
    /\ Recipe = Empty
    /\ Attr = [kind \in Kinds |-> Empty]
    /\ nextId = [recipe |-> 1, tags |-> 1, ingredients |-> 1]
    /\ req = NoRequest
    /\ res = NoResponse
    /\ before = [Recipe |-> Empty, Attr |-> [kind \in Kinds |-> Empty],
                 nextId |-> [recipe |-> 1, tags |-> 1, ingredients |-> 1]]
    /\ txn = [p \in Procs |-> NoTxn]

\* ------------------------------------------------------------------------
\* Recipe endpoints
\* ------------------------------------------------------------------------
\* POST /recipes/
CreateFrom(payloads) ==
    \E user \in Users, payload \in payloads :
        /\ Receive(Request("create", "recipe", user, 0, payload, Empty))
        /\ IF ~is_valid(payload, FALSE)
           THEN /\ res' = Response("ValidationError", <<>>)
                /\ UNCHANGED store
           ELSE LET pk == nextId["recipe"]
                    new == [user |-> perform_create(user, payload),
                            title |-> "", tags |-> {}, ingredients |-> {},
                            image |-> {}]
                    s == save(pk, new, validated_data(payload), Recipe, Attr,
                              [nextId EXCEPT !["recipe"] = pk + 1])
                IN /\ pk <= MaxRecipeId
                   /\ Fits(s)
                   /\ Commit(s)
                   /\ res' = Response("Created", <<pk>>)

\* The payloads enumerated for POST and PUT carry the required title, or
\* nothing (the payload that is_valid refuses).
PutPayloads == {p \in RecipePayloads : "title" \in DOMAIN p} \cup {Empty}

\* The payloads enumerated for PATCH carry the title alone or leave it out.
PatchPayloads ==
    {p \in RecipePayloads : "title" \notin DOMAIN p \/ DOMAIN p = {"title"}}

RecipeCreate == CreateFrom(PutPayloads)

\* PUT (partial = FALSE) and PATCH (partial = TRUE) /recipes/<pk>/ ; the
\* requests that carry a query string are enumerated with payloads of the
\* title alone or of nothing.
UpdateWith(op, partial, payloads) ==
    \E user \in Users, pk \in 1..MaxRecipeId, payload \in payloads,
       params \in DetailParams :
        /\ params # Empty => DOMAIN payload \subseteq {"title"}
        /\ Receive(Request(op, "recipe", user, pk, payload, params))
        /\ IF raises_ValueError(params)
           THEN /\ res' = Response("ServerError", <<>>)
                /\ UNCHANGED store
           ELSE IF ~RecipeGetObject(Recipe, user, pk, params)
           THEN /\ res' = Response("NotFound", <<>>)
                /\ UNCHANGED store
           ELSE IF ~is_valid(payload, partial)
           THEN /\ res' = Response("ValidationError", <<>>)
                /\ UNCHANGED store
           ELSE LET s == save(pk, Recipe[pk], validated_data(payload),
                              Recipe, Attr, nextId)
                IN /\ Fits(s)
                   /\ Commit(s)
                   /\ res' = Response("OK", <<pk>>)

RecipeUpdate == UpdateWith("update", FALSE, PutPayloads)

RecipePartialUpdate == UpdateWith("partial_update", TRUE, PatchPayloads)

\* GET /recipes/?tags=..&ingredients=..
RecipeList ==
    \E user \in Users, params \in QueryParams :
        /\ Receive(Request("list", "recipe", user, 0, Empty, params))
        /\ res' = IF raises_ValueError(params)
                  THEN Response("ServerError", <<>>)
                  ELSE Response("OK", get_queryset(Recipe, user, params))
        /\ UNCHANGED store

\* GET /recipes/<pk>/
RecipeRetrieve ==
    \E user \in Users, pk \in 1..MaxRecipeId, params \in DetailParams :
        /\ Receive(Request("retrieve", "recipe", user, pk, Empty, params))
        /\ res' = IF raises_ValueError(params)
                  THEN Response("ServerError", <<>>)
                  ELSE IF RecipeGetObject(Recipe, user, pk, params)
                  THEN Response("OK", <<pk>>)
                  ELSE Response("NotFound", <<>>)
        /\ UNCHANGED store

\* DELETE /recipes/<pk>/ : the row and its association rows go.
RecipeDestroy ==
    \E user \in Users, pk \in 1..MaxRecipeId, params \in DetailParams :
        /\ Receive(Request("destroy", "recipe", user, pk, Empty, params))
        /\ IF raises_ValueError(params)
           THEN /\ res' = Response("ServerError", <<>>)
                /\ UNCHANGED store
           ELSE IF RecipeGetObject(Recipe, user, pk, params)
           THEN /\ Recipe' = Del(Recipe, pk)
                /\ res' = Response("NoContent", <<>>)
                /\ UNCHANGED <<Attr, nextId>>
           ELSE /\ res' = Response("NotFound", <<>>)
                /\ UNCHANGED store

\* ------------------------------------------------------------------------
\* Image upload
\* ------------------------------------------------------------------------
\* Uploaded files that decode as an image, and one that does not.
Images == {"a.jpg", "b.jpg"}

Uploads == Images \cup {"notanimg"}

ImagePayloads == {Empty} \cup [image : Uploads]

\* RecipeImageSerializer.is_valid(): the image field is required and must
\* decode as an image.
image_is_valid(payload) ==
    "image" \in DOMAIN payload /\ payload.image \in Images

\* The image column after the serializer saves the upload: the references
\* the row holds (none while the column is null).
save_image(image, upload) == {upload}

\* POST /recipes/<pk>/upload_image/
UploadImage ==
    \E user \in Users, pk \in 1..MaxRecipeId, payload \in ImagePayloads,
       params \in DetailParams :
        /\ Receive(Request("upload_image", "recipe", user, pk, payload, params))
        /\ IF raises_ValueError(params)
           THEN /\ res' = Response("ServerError", <<>>)
                /\ UNCHANGED store
           ELSE IF ~RecipeGetObject(Recipe, user, pk, params)
           THEN /\ res' = Response("NotFound", <<>>)
                /\ UNCHANGED store
           ELSE IF ~image_is_valid(payload)
           THEN /\ res' = Response("ValidationError", <<>>)
                /\ UNCHANGED store
           ELSE /\ Recipe' = [Recipe EXCEPT
                                 ![pk].image = save_image(@, payload.image)]
                /\ res' = Response("OK", <<pk>>)
                /\ UNCHANGED <<Attr, nextId>>

\* ------------------------------------------------------------------------
\* Tag and ingredient endpoints
\* ------------------------------------------------------------------------
\* A bug: the store has no constraint on (owner, name).
UniqueOk_unenforced(table, pk, owner, name) == TRUE

\* The store refuses a second row with the same (owner, name).
UniqueOk(table, pk, owner, name) == Lookup(table, owner, name) \subseteq {pk}

\* PUT / PATCH /tags/<pk>/ and /ingredients/<pk>/
AttrUpdateWith(op, partial) ==
    \E kind \in Kinds : \E user \in Users, pk \in 1..MaxAttrId(kind),
                         payload \in AttrPayloads(kind) :
        /\ Receive(Request(op, kind, user, pk, payload, Empty))
        /\ IF ~AttrGetObject(Attr[kind], user, pk)
           THEN /\ res' = Response("NotFound", <<>>)
                /\ UNCHANGED store
           ELSE IF "name" \notin DOMAIN payload
           THEN /\ res' = IF partial THEN Response("OK", <<pk>>)
                          ELSE Response("ValidationError", <<>>)
                /\ UNCHANGED store
           ELSE IF ~UniqueOk(Attr[kind], pk, user, payload.name)
           THEN /\ res' = Response("ValidationError", <<>>)
                /\ UNCHANGED store
           ELSE /\ Attr' = [Attr EXCEPT ![kind][pk].name = payload.name]
                /\ res' = Response("OK", <<pk>>)
                /\ UNCHANGED <<Recipe, nextId>>

AttrUpdate == AttrUpdateWith("update", FALSE)

AttrPartialUpdate == AttrUpdateWith("partial_update", TRUE)

\* GET /tags/<pk>/ : the viewset has no retrieve action.
AttrRetrieve ==
    \E kind \in Kinds : \E user \in Users, pk \in 1..MaxAttrId(kind) :
        /\ Receive(Request("retrieve", kind, user, pk, Empty, Empty))
        /\ res' = Response("MethodNotAllowed", <<>>)
        /\ UNCHANGED store

\* A bug: the recipes that carry the deleted row are deleted with it.
clear_relations_cascade(recipes, kind, pk) ==
    Restrict(recipes, {id \in DOMAIN recipes : pk \notin recipes[id][kind]})

\* The recipes after the association rows of a deleted tag or ingredient are
\* removed (the many-to-many table's rows go with either end).
clear_relations(recipes, kind, pk) ==
    [id \in DOMAIN recipes |-> [recipes[id] EXCEPT ![kind] = @ \ {pk}]]

\* DELETE /tags/<pk>/ : the row and its association rows go.
AttrDestroy ==
    \E kind \in Kinds : \E user \in Users, pk \in 1..MaxAttrId(kind) :
        /\ Receive(Request("destroy", kind, user, pk, Empty, Empty))
        /\ IF AttrGetObject(Attr[kind], user, pk)
           THEN /\ Attr' = [Attr EXCEPT ![kind] = Del(Attr[kind], pk)]
                /\ Recipe' = clear_relations(Recipe, kind, pk)
                /\ res' = Response("NoContent", <<>>)
                /\ UNCHANGED nextId
           ELSE /\ res' = Response("NotFound", <<>>)
                /\ UNCHANGED store

\* GET /tags/ and /ingredients/ : get_queryset() reads no query parameter.
AttrList ==
    \E kind \in Kinds : \E user \in Users, params \in AttrListParams :
        /\ Receive(Request("list", kind, user, 0, Empty, params))
        /\ res' = Response("OK", order_by_name_desc(
                                     Attr[kind], AttrQueryset(Attr[kind], user)))
        /\ UNCHANGED store

\* The actions of the viewsets.
Ops(kind) ==
    IF kind = "recipe"
    THEN {"list", "create", "retrieve", "update", "partial_update", "destroy",
          "upload_image"}
    ELSE {"list", "retrieve", "update", "partial_update", "destroy"}

\* A request without a token, to any endpoint: the permission check of
\* initial() comes before the action. Were it to pass, the action would run
\* for AnonymousUser: the tag / ingredient detail GET has no action, every
\* other one fails on the user filter or the user assignment.
PublicRequest ==
    \E kind \in {"recipe"} \cup Kinds :
        \E op \in Ops(kind), pk \in 0..MaxRecipeId,
           payload \in {Empty} \cup [title : Titles],
           params \in DetailParams :
            /\ pk = 0 <=> op \in {"list", "create"}
            /\ Receive(Request(op, kind, AnonymousUser, pk, payload, params))
            /\ res' = IF ~IsAuthenticated(AnonymousUser)
                      THEN Response("Unauthenticated", <<>>)
                      ELSE IF kind \in Kinds /\ op = "retrieve"
                      THEN Response("MethodNotAllowed", <<>>)
                      ELSE Response("ServerError", <<>>)
            /\ UNCHANGED store

\* A process takes a recipe create or partial update that carries one list
\* of names: a create inserts the recipe row, an update gets it from the
\* user's queryset and reads its associations. The store has room for the
\* rows that the writes in progress and this one may insert.
TxnBegin(p) ==
    \E user \in Users, op \in {"create", "partial_update"},
       pk \in 1..MaxRecipeId, kind \in Kinds :
        \E names \in SeqsUpTo(NamesOf(kind), MaxRaceNames) \ {<<>>} :
            /\ txn[p].pc = "idle"
            /\ Taken(txn, Procs) < MaxWrites
            /\ (nextId[kind] - 1) + SumNeed(Attr, kind, txn, Procs)
                   + Need(Attr, kind, user, names) <= MaxAttrId(kind)
            /\ IF op = "create"
               THEN /\ pk = nextId["recipe"]
                    /\ Recipe' = Put(Recipe, pk,
                                     [user |-> perform_create(user, Empty),
                                      title |-> "", tags |-> {},
                                      ingredients |-> {}, image |-> {}])
                    /\ nextId' = [nextId EXCEPT !["recipe"] = pk + 1]
               ELSE /\ RecipeGetObject(Recipe, user, pk, Empty)
                    /\ UNCHANGED <<Recipe, nextId>>
            /\ txn' = [txn EXCEPT ![p] =
                          Txn("lookup", Recipe'[pk].user, op, pk, kind, names,
                              names, {}, {}, Recipe'[pk][kind],
                              Recipe'[pk][kind], txn[p].count + 1)]
            /\ UNCHANGED <<Attr, req, res, before>>

\* The lookup of the next name by (owner, name).
TxnLookup(p) ==
    LET t == txn[p]
        name == Head(t.todo)
        found == Lookup(Attr[t.kind], t.user, name)
    IN /\ t.pc = "lookup"
       /\ txn' = [txn EXCEPT ![p] =
                     IF found # {}
                     THEN [t EXCEPT !.refs = @ \cup {CHOOSE id \in found : TRUE},
                                    !.todo = Tail(@),
                                    !.pc = AfterResolve(t.todo)]
                     ELSE [t EXCEPT !.missed = @ \cup {name}, !.pc = "create"]]
       /\ UNCHANGED <<store, req, res, before>>

\* The insert that follows a lookup that found nothing; when the store
\* refuses it (the row exists by now), the existing row is read and used.
TxnCreate(p) ==
    LET t == txn[p]
        name == Head(t.todo)
        id == nextId[t.kind]
    IN /\ t.pc = "create"
       /\ IF UniqueOk(Attr[t.kind], id, t.user, name)
          THEN /\ id <= MaxAttrId(t.kind)
               /\ Attr' = [Attr EXCEPT ![t.kind] =
                              Put(@, id, [user |-> t.user, name |-> name])]
               /\ nextId' = [nextId EXCEPT ![t.kind] = id + 1]
               /\ txn' = [txn EXCEPT ![p] =
                             [t EXCEPT !.refs = @ \cup {id}, !.todo = Tail(@),
                                       !.pc = AfterResolve(t.todo)]]
          ELSE /\ txn' = [txn EXCEPT ![p] =
                             [t EXCEPT !.refs = @ \cup
                                           {CHOOSE c \in Lookup(Attr[t.kind],
                                                                t.user, name) : TRUE},
                                       !.todo = Tail(@),
                                       !.pc = AfterResolve(t.todo)]]
               /\ UNCHANGED <<Attr, nextId>>
       /\ UNCHANGED <<Recipe, req, res, before>>

\* The replacement of the association set starts: the write clears the
\* recipe's associations of the kind.
TxnClear(p) ==
    LET t == txn[p]
        w == clearAssociations(t.view)
    IN /\ t.pc = "clear"
       /\ Recipe' = Uncommitted(Recipe, t.pk, t.kind, w)
       /\ txn' = [txn EXCEPT ![p] = [t EXCEPT !.view = w, !.pc = "add"]]
       /\ UNCHANGED <<Attr, nextId, req, res, before>>

\* The write associates the next resolved row, in the order of the ids.
TxnAdd(p) ==
    LET t == txn[p]
        id == CHOOSE i \in t.refs \ t.view :
                  \A j \in t.refs \ t.view : i <= j
        w == addAssociation(t.view, id)
    IN /\ t.pc = "add"
       /\ t.refs \ t.view # {}
       /\ Recipe' = Uncommitted(Recipe, t.pk, t.kind, w)
       /\ txn' = [txn EXCEPT ![p] =
                     [t EXCEPT !.view = w,
                               !.pc = IF t.refs \subseteq w THEN "set"
                                                            ELSE "add"]]
       /\ UNCHANGED <<Attr, nextId, req, res, before>>

\* The write's transaction commits: the recipe's association set of the
\* kind is replaced by the set the write has built.
TxnSet(p) ==
    LET t == txn[p]
    IN /\ t.pc = "set"
       /\ Recipe' = IF t.pk \in DOMAIN Recipe
                    THEN [Recipe EXCEPT ![t.pk][t.kind] = t.view]
                    ELSE Recipe
       /\ txn' = [txn EXCEPT ![p].pc = "done"]
       /\ UNCHANGED <<Attr, nextId, req, res, before>>

\* The response of a finished write is sent; the process is free to take
\* the next request.
TxnEnd(p) ==
    /\ txn[p].pc = "done"
    /\ txn' = [txn EXCEPT ![p] = [NoTxn EXCEPT !.count = txn[p].count]]
    /\ UNCHANGED <<store, req, res, before>>

\* The response reaches the client; the server keeps nothing of the exchange.
Deliver ==
    /\ ~Idle
    /\ req' = NoRequest
    /\ res' = NoResponse
    /\ before' = Snapshot
    /\ UNCHANGED <<store, txn>>

Next ==
    \/ Deliver
    \/ RecipeCreate
    \/ RecipeUpdate
    \/ RecipePartialUpdate
    \/ RecipeRetrieve
    \/ RecipeDestroy
    \/ AttrUpdate
    \/ AttrPartialUpdate
    \/ AttrRetrieve
    \/ AttrDestroy

Spec == Init /\ [][Next]_vars

\* ------------------------------------------------------------------------
\* The recipe list over the stores that creating recipes and assigning
\* their tags and ingredients produces.
\* ------------------------------------------------------------------------
ListPayloads == {p \in RecipePayloads : "user" \notin DOMAIN p}

ListCreate == CreateFrom(ListPayloads)

ListAssign ==
    UpdateWith("partial_update", TRUE,
               {p \in ListPayloads : "title" \notin DOMAIN p})

NextList ==
    \/ Deliver
    \/ ListCreate
    \/ ListAssign
    \/ RecipeList

ListSpec == Init /\ [][NextList]_vars

\* ------------------------------------------------------------------------
\* Full replace with payloads that carry the title and both lists.
\* ------------------------------------------------------------------------
ReplacePayloads ==
    {Restrict(p, {"title", "tags", "ingredients"}) : p \in FullPayloads}

FullReplace == UpdateWith("update", FALSE, ReplacePayloads)

NextReplace ==
    \/ Deliver
    \/ ListCreate
    \/ FullReplace

ReplaceSpec == Init /\ [][NextReplace]_vars

\* ------------------------------------------------------------------------
\* The tag and ingredient lists over the stores that creating recipes and
\* assigning their tags and ingredients produces.
\* ------------------------------------------------------------------------
NextAttrList ==
    \/ Deliver
    \/ ListCreate
    \/ ListAssign
    \/ AttrList

AttrListSpec == Init /\ [][NextAttrList]_vars

\* ------------------------------------------------------------------------
\* Requests without a token, over the stores that creating recipes produces.
\* ------------------------------------------------------------------------
NextPublic ==
    \/ Deliver
    \/ ListCreate
    \/ PublicRequest

PublicSpec == Init /\ [][NextPublic]_vars

\* ------------------------------------------------------------------------
\* Image uploads, over the stores that creating recipes produces.
\* ------------------------------------------------------------------------
NextImage ==
    \/ Deliver
    \/ ListCreate
    \/ UploadImage

ImageSpec == Init /\ [][NextImage]_vars

\* ------------------------------------------------------------------------
\* Two recipe writes whose steps interleave.
\* ------------------------------------------------------------------------
NextRace ==
    \/ \E p \in Procs : TxnBegin(p)
    \/ \E p \in Procs : TxnLookup(p)
    \/ \E p \in Procs : TxnCreate(p)
    \/ \E p \in Procs : TxnClear(p)
    \/ \E p \in Procs : TxnAdd(p)
    \/ \E p \in Procs : TxnSet(p)
    \/ \E p \in Procs : TxnEnd(p)

RaceSpec == Init /\ [][NextRace]_vars

\* ------------------------------------------------------------------------
\* Properties
\* ------------------------------------------------------------------------
DetailOps == {"retrieve", "update", "partial_update", "destroy"}

Unchanged == Snapshot = before

\* The request addresses a row that exists and belongs to another user.
OwnedByOther ==
    /\ req.op \in DetailOps
    /\ IF req.kind = "recipe"
       THEN /\ req.pk \in DOMAIN before.Recipe
            /\ before.Recipe[req.pk].user # req.user
       ELSE /\ req.pk \in DOMAIN before.Attr[req.kind]
            /\ before.Attr[req.kind][req.pk].user # req.user

C2_OwnerIsCreator ==
    \A pk \in DOMAIN Recipe :
        IF pk \in DOMAIN before.Recipe
        THEN Recipe[pk].user = before.Recipe[pk].user
        ELSE req.op = "create" /\ Recipe[pk].user = req.user

\* An update naming a different user as owner was accepted.
C2_Witness ==
    /\ req.op \in {"update", "partial_update"}
    /\ "user" \in DOMAIN req.payload
    /\ req.payload.user # req.user
    /\ res.status = "OK"

WriteOps == {"create", "update", "partial_update"}

\* A recipe create or update succeeded.
Written == req.kind = "recipe" /\ req.op \in WriteOps /\ res.status \in {"OK", "Created"}

\* The names a successful write requested for a kind (none when the payload
\* lacks the field).
Requested(kind) ==
    IF kind \in DOMAIN req.payload THEN Range(req.payload[kind]) ELSE {}

\* The requested names that exist under another user and not under the owner.
OnlyUnderOthers(kind, owner) ==
    {n \in Requested(kind) :
        /\ Lookup(before.Attr[kind], owner, n) = {}
        /\ \E c \in DOMAIN before.Attr[kind] : before.Attr[kind][c].name = n}

FilterAbsent(key) ==
    key \notin DOMAIN req.query_params \/ req.query_params[key] = <<>>

FilterIds(key) == params_to_ints(req.query_params[key]).ids

Listed == req.op = "list" /\ res.status = "OK"

Qualifies(pk) ==
    /\ pk \in DOMAIN Recipe
    /\ Recipe[pk].user = req.user
    /\ FilterAbsent("tags") \/ Recipe[pk].tags \cap FilterIds("tags") # {}
    /\ FilterAbsent("ingredients")
          \/ Recipe[pk].ingredients \cap FilterIds("ingredients") # {}

\* C4: the recipe list holds a recipe iff the requester owns it and it
\* satisfies each filter that is given.
C4_ListMembership ==
    Listed => \A pk \in 1..MaxRecipeId : pk \in Range(res.data) <=> Qualifies(pk)

\* Both filters were given; one recipe passed and another of the requester's
\* recipes was left out.
C4_Witness ==
    /\ Listed
    /\ ~FilterAbsent("tags")
    /\ ~FilterAbsent("ingredients")
    /\ res.data # <<>>
    /\ \E pk \in DOMAIN Recipe :
           Recipe[pk].user = req.user /\ pk \notin Range(res.data)

Occurrences(seq, x) == Cardinality({k \in 1..Len(seq) : seq[k] = x})

\* C5: every qualifying recipe is in the list exactly once.
C5_ListHasNoDuplicates ==
    Listed => \A pk \in 1..MaxRecipeId :
                  Occurrences(res.data, pk) = IF Qualifies(pk) THEN 1 ELSE 0

\* A listed recipe matched the tags filter through two of its tags and the
\* ingredients filter as well.
C5_Witness ==
    /\ Listed
    /\ ~FilterAbsent("tags")
    /\ ~FilterAbsent("ingredients")
    /\ \E pk \in Range(res.data) :
           Cardinality(Recipe[pk].tags \cap FilterIds("tags")) >= 2

\* The recipe a successful write wrote, and its owner.
WrittenPk == res.data[1]

WrittenOwner == Recipe[WrittenPk].user

\* The requested names the owner had no row for when the request arrived.
Missing(kind) ==
    {n \in Requested(kind) : Lookup(before.Attr[kind], WrittenOwner, n) = {}}

Updated ==
    /\ req.kind = "recipe"
    /\ req.op \in {"update", "partial_update"}
    /\ res.status = "OK"

\* The rows of the owner with one of the requested names.
Resolved(kind) ==
    {c \in DOMAIN Attr[kind] :
        /\ Attr[kind][c].user = WrittenOwner
        /\ Attr[kind][c].name \in Requested(kind)}

PartiallyUpdated == Updated /\ req.op = "partial_update"

Repeated(kind) ==
    IF kind \in DOMAIN req.payload
    THEN {n \in Requested(kind) : Occurrences(req.payload[kind], n) >= 2}
    ELSE {}

Replaced == Updated /\ req.op = "update"

\* The store after the same PUT is applied once more to the store the first
\* application left.
Again ==
    save(req.pk, Recipe[req.pk], validated_data(req.payload), Recipe, Attr,
         nextId)

C12_ListOrderedDescending ==
    Listed => \A i, j \in 1..Len(res.data) : i < j => res.data[i] > res.data[j]

\* A list filtered by tag returned two recipes.
C12_Witness ==
    /\ Listed
    /\ ~FilterAbsent("tags")
    /\ Len(res.data) >= 2
\* A recipe list request one of whose filter parameters holds a token that
\* is no integer.
MalformedList == req.op = "list" /\ raises_ValueError(req.query_params)

\* C13: a recipe list request with a non-integer token in a filter parameter
\* is answered with a ValidationError.
C13_MalformedFilterIsValidationError ==
    MalformedList => res.status = "ValidationError"
\* A tag or ingredient list was returned.
AttrListed == req.op = "list" /\ req.kind \in Kinds /\ res.status = "OK"

\* The request sets assigned_only.
AssignedOnly ==
    /\ "assigned_only" \in DOMAIN req.query_params
    /\ req.query_params.assigned_only = "1"

\* The requester's rows of the listed kind that some recipe carries.
Assigned ==
    {id \in DOMAIN Attr[req.kind] :
        /\ Attr[req.kind][id].user = req.user
        /\ \E pk \in DOMAIN Recipe : id \in Recipe[pk][req.kind]}

\* C14: a tag or ingredient list with assigned_only set holds exactly the
\* requester's rows that at least one recipe carries, each once.
C14_AssignedOnly ==
    (AttrListed /\ AssignedOnly) =>
        /\ Range(res.data) = Assigned
        /\ Len(res.data) = Cardinality(Assigned)

AttrDeleted == req.kind \in Kinds /\ req.op = "destroy" /\ res.status = "NoContent"

RecipeDeleted ==
    req.kind = "recipe" /\ req.op = "destroy" /\ res.status = "NoContent"

\* C16: deleting a tag or ingredient removes that row and its associations
\* and nothing else: every other row of either kind and every recipe stays,
\* each recipe as it was but for the deleted child; deleting a recipe
\* removes that recipe and no tag, ingredient or other recipe.
C16_DeletionDoesNotCascade ==
    /\ AttrDeleted =>
           /\ Attr[req.kind] = Del(before.Attr[req.kind], req.pk)
           /\ \A kind \in Kinds \ {req.kind} : Attr[kind] = before.Attr[kind]
           /\ DOMAIN Recipe = DOMAIN before.Recipe
           /\ \A pk \in DOMAIN Recipe :
                  /\ req.pk \notin Recipe[pk][req.kind]
                  /\ Recipe[pk] = [before.Recipe[pk] EXCEPT
                                       ![req.kind] = @ \ {req.pk}]
    /\ RecipeDeleted =>
           /\ Attr = before.Attr
           /\ Recipe = Del(before.Recipe, req.pk)

\* A tag was deleted that a recipe carried next to another tag.
C16_Witness ==
    /\ AttrDeleted
    /\ req.kind = "tags"
    /\ \E pk \in DOMAIN before.Recipe :
           /\ req.pk \in before.Recipe[pk].tags
           /\ Recipe[pk].tags # {}
NonImageUpload ==
    /\ req.op = "upload_image"
    /\ req.pk \in DOMAIN before.Recipe
    /\ before.Recipe[req.pk].user = req.user
    /\ "image" \in DOMAIN req.payload
    /\ req.payload.image \notin Images

\* C18: a non-image upload to a recipe of the requester is answered with a
\* ValidationError and changes nothing; no recipe holds more than one image
\* reference.
C18_NonImageUploadRejected ==
    /\ NonImageUpload => res.status = "ValidationError" /\ Unchanged
    /\ \A pk \in DOMAIN Recipe : Cardinality(Recipe[pk].image) <= 1
\* Every concurrent write has finished.
AllDone == \A p \in Procs : txn[p].pc = "done"

UpdatesOf(pk, kind) ==
    {p \in Procs : /\ txn[p].op = "partial_update"
                   /\ txn[p].pk = pk
                   /\ txn[p].kind = kind}

\* Both processes have finished an update of the same recipe and kind: its
\* association set is the resolved set of one of them.
OneOfTheTwo ==
    \A pk \in DOMAIN Recipe : \A kind \in Kinds :
        (AllDone /\ UpdatesOf(pk, kind) = Procs) =>
            \E p \in Procs : Recipe[pk][kind] = txn[p].refs

\* One more step of the write of process p.
TxnStep(p) ==
    TxnLookup(p) \/ TxnCreate(p) \/ TxnClear(p) \/ TxnAdd(p) \/ TxnSet(p)

\* Whatever the other process is doing, a write that has begun can take its
\* next step.
NeverPrevented == \A p \in Procs : InFlight(txn[p]) => ENABLED TxnStep(p)

\* A step that changes the association set of an existing recipe is the
\* commit of one write, and sets it to the whole resolved set of that write.
ReplacedWhole ==
    \A pk \in DOMAIN Recipe : \A kind \in Kinds :
        Recipe'[pk][kind] # Recipe[pk][kind] =>
            \E p \in Procs :
                /\ txn[p].pk = pk /\ txn[p].kind = kind
                /\ txn[p].pc = "set" /\ txn'[p].pc = "done"
                /\ Recipe'[pk][kind] = txn[p].refs

====
